---- MODULE Spec2Model ----
(***************************************************************************)
(* A model of the agrichatbot server: the in-memory store (MemStorage),    *)
(* the vector search and indexing service (VectorSearchService), the text  *)
(* chunker (DataProcessor.chunkText), the RAG pipeline                     *)
(* (RAGPipelineService) and the two HTTP handlers that drive them          *)
(* (POST /api/upload, POST /api/chat).                                     *)
(*                                                                         *)
(* Strings that the code inspects character by character are sequences of  *)
(* one-character strings.  A Map with fresh random keys is a sequence in   *)
(* insertion order; an element's id is its position.                       *)
(***************************************************************************)
EXTENDS Integers, Sequences, FiniteSets, TLC

VARIABLES
    apiKey,      \* process.env.HUGGING_FACE_API_KEY is set
    datasets,    \* MemStorage.datasets, in insertion order
    handed,      \* per dataset: number of chunks passed to buildIndexForDataset
    chunks,      \* MemStorage.chunks, in insertion order
    conversations, \* MemStorage.conversations: how many exist
    messages,    \* MemStorage.messages, in insertion order
    up,          \* the POST /api/upload requests in flight
    chat,        \* the POST /api/chat requests in flight
    searchQ,     \* last searchChunksByEmbedding call: the query vector
    searchK,     \*   its limit
    searchScores,\*   the scores it computed, in candidate order
    searchRes,   \*   the chunk ids it returned
    text,        \* chunkText: the input text
    textChunks,  \* chunkText: the returned chunks
    textPc,      \* chunkText: "input" before the call, "done" after
    call,        \* DataProcessor: the method called and its arguments
    ret          \* DataProcessor: what the call returned

vars == <<apiKey, datasets, handed, chunks, conversations, messages, up, chat,
          searchQ, searchK, searchScores, searchRes,
          text, textChunks, textPc, call, ret>>

\* A nullable array is NULL or Arr(a): a nullable value never compares an array
\* with a non-array.
NULL == <<>>
Arr(a) == <<a>>

Min(a, b) == IF a < b THEN a ELSE b

RECURSIVE SeqSum(_)
SeqSum(s) == IF s = <<>> THEN 0 ELSE Head(s) + SeqSum(Tail(s))

(***************************************************************************)
(* MemStorage.cosineSimilarity.  Vectors are integer tuples; the score     *)
(* dot / (sqrt(magA2) * sqrt(magB2)) is kept exactly as the pair           *)
(* (num, den2) = (dot, magA2 * magB2), and nan marks IEEE NaN: 0/0 when a  *)
(* magnitude is zero, or an undefined b[i] when a is longer than b.  The   *)
(* vectors the specifications draw have magnitudes 0, 1 or 2, for which    *)
(* the double arithmetic of the code is exact.                             *)
(***************************************************************************)
NaN == [nan |-> TRUE, num |-> 0, den2 |-> 0]

dotProduct(a, b) == SeqSum([i \in 1..Len(a) |-> a[i] * b[i]])

magnitude2(a) == SeqSum([i \in 1..Len(a) |-> a[i] * a[i]])

cosineSimilarity(a, b) ==
    IF Len(a) > Len(b) THEN NaN
    ELSE IF magnitude2(a) * magnitude2(b) = 0 THEN NaN
         ELSE [nan |-> FALSE, num |-> dotProduct(a, b),
               den2 |-> magnitude2(a) * magnitude2(b)]

\* The sign of n * sqrt(d), for d >= 0, as an integer that orders like it.
SqSign(n, d) == IF n < 0 THEN 0 - n * n * d ELSE n * n * d

\* The sign of x - y for two scores that are numbers.
ScoreCmp(x, y) ==
    LET l == SqSign(x.num, y.den2)
        r == SqSign(y.num, x.den2)
    IN  IF l > r THEN 1 ELSE IF l < r THEN 0 - 1 ELSE 0

\* IEEE comparisons: every comparison with NaN is false.
ScoreGeq(x, y) == ~x.nan /\ ~y.nan /\ ScoreCmp(x, y) >= 0
ScoreEq(x, y) == ~x.nan /\ ~y.nan /\ ScoreCmp(x, y) = 0
ScoreIsZero(x) == ~x.nan /\ x.num = 0

(***************************************************************************)
(* The comparator (a, b) => b.score - a.score as Array.prototype.sort sees *)
(* it: the sign of the difference, a NaN difference counting as 0.         *)
(***************************************************************************)
compareFn(a, b) ==
    IF a.score.nan \/ b.score.nan THEN 0 ELSE ScoreCmp(b.score, a.score)

(***************************************************************************)
(* Array.prototype.sort as the Node.js engine runs it on fewer than 64     *)
(* elements: the first run is counted (and reversed when strictly          *)
(* descending), then the rest is placed by binary insertion.  With a       *)
(* consistent comparator this is the stable sort; with NaN scores the      *)
(* comparator is not consistent and the order is what this algorithm       *)
(* yields.  Indices left, right, mid are 0-based as in the engine.         *)
(***************************************************************************)
RECURSIVE RunEnd(_, _, _)
RunEnd(w, desc, idx) ==
    IF idx > Len(w) THEN idx - 1
    ELSE LET order == compareFn(w[idx], w[idx - 1])
         IN  IF (desc /\ order >= 0) \/ (~desc /\ order < 0)
             THEN idx - 1
             ELSE RunEnd(w, desc, idx + 1)

Reverse(s) == [i \in 1..Len(s) |-> s[Len(s) + 1 - i]]

RECURSIVE BinarySearch(_, _, _, _)
BinarySearch(w, pivot, left, right) ==
    IF left >= right THEN left
    ELSE LET mid == left + ((right - left) \div 2)
         IN  IF compareFn(pivot, w[mid + 1]) < 0
             THEN BinarySearch(w, pivot, left, mid)
             ELSE BinarySearch(w, pivot, mid + 1, right)

RECURSIVE BinaryInsertionSort(_, _)
BinaryInsertionSort(w, start) ==
    IF start >= Len(w) THEN w
    ELSE LET pivot == w[start + 1]
             left == BinarySearch(w, pivot, 0, start)
             placed == SubSeq(w, 1, left) \o <<pivot>>
                       \o SubSeq(w, left + 1, start)
                       \o SubSeq(w, start + 2, Len(w))
         IN  BinaryInsertionSort(placed, start + 1)

sortByScore(w) ==
    IF Len(w) < 2 THEN w
    ELSE LET desc == compareFn(w[2], w[1]) < 0
             run == RunEnd(w, desc, 3)
             made == IF desc
                     THEN Reverse(SubSeq(w, 1, run)) \o SubSeq(w, run + 1, Len(w))
                     ELSE w
         IN  BinaryInsertionSort(made, run)

(***************************************************************************)
(* MemStorage.searchChunksByEmbedding, on the store `store`: the chunks    *)
(* with a non-empty embedding, scored, sorted, cut to `limit`.             *)
(* Candidates(store) are their ids in insertion order.                     *)
(***************************************************************************)
HasEmbedding(c) == c.embedding # NULL /\ Len(c.embedding[1]) > 0

RECURSIVE IdsFrom(_, _)
IdsFrom(store, i) ==
    IF i > Len(store) THEN <<>>
    ELSE (IF HasEmbedding(store[i]) THEN <<i>> ELSE <<>>) \o IdsFrom(store, i + 1)

Candidates(store) == IdsFrom(store, 1)

chunksWithScores(store, embedding) ==
    LET ids == Candidates(store)
    IN  [i \in 1..Len(ids) |->
            [chunk |-> ids[i],
             score |-> cosineSimilarity(embedding, store[ids[i]].embedding[1])]]

slice(s, limit) == SubSeq(s, 1, Min(limit, Len(s)))

searchChunksByEmbedding(store, embedding, limit) ==
    LET sorted == slice(sortByScore(chunksWithScores(store, embedding)), limit)
    IN  [i \in 1..Len(sorted) |-> sorted[i].chunk]

(***************************************************************************)
(* MemStorage.createChunk: a fresh id, so always a new entry at the end;   *)
(* an undefined or null embedding is stored as null (an empty array is     *)
(* truthy and is stored as it is).                                         *)
(***************************************************************************)
createChunk(store, insertChunk) == Append(store, insertChunk)

(***************************************************************************)
(* The index API on its own: VectorSearchService.addChunkToIndex and       *)
(* searchSimilarChunks over MemStorage.  The embedding provider is an      *)
(* external service: what it returns for a text is any value of the set    *)
(* the specification draws from (a vector, or nothing, stored as null, or  *)
(* an empty array).  A failing provider makes either call throw and        *)
(* changes nothing.                                                        *)
(***************************************************************************)
MaxStore == 3
MaxTieStore == 7
DefaultLimit == 5

IndexVecs == {<<0, 0>>, <<1, 0>>, <<0 - 1, 0>>}
IndexEmbeddings == {Arr(v) : v \in IndexVecs} \cup {NULL, Arr(<<>>)}
IndexContents == {"c1", "c2"}
IndexLimits == {0, 1, DefaultLimit}

TieVecs == {<<0, 0>>, <<1, 0>>, <<0, 1>>}
TieQueries == {<<1, 0>>, <<0, 1>>}
TieLimits == {DefaultLimit, MaxTieStore + 1}

SystemIdle ==
    /\ apiKey = FALSE
    /\ datasets = <<>>
    /\ handed = <<>>
    /\ conversations = 0
    /\ messages = <<>>
    /\ up = <<>>
    /\ chat = <<>>

ChunkerIdle ==
    /\ text = <<>>
    /\ textChunks = <<>>
    /\ textPc = "off"

ProcessorIdle ==
    /\ call = [fn |-> "off"]
    /\ ret = <<>>

SearchIdle ==
    /\ searchQ = NULL
    /\ searchK = 0
    /\ searchScores = <<>>
    /\ searchRes = <<>>

InitIndex ==
    /\ SystemIdle
    /\ ProcessorIdle
    /\ ChunkerIdle
    /\ SearchIdle
    /\ chunks = <<>>

\* addChunkToIndex(content, datasetId): embed the content, store the chunk.
AddChunkToIndex(content, datasetId, embedding, max) ==
    /\ Len(chunks) < max
    /\ chunks' = createChunk(chunks, [datasetId |-> datasetId,
                                      content |-> content,
                                      embedding |-> embedding])
    /\ searchQ' = NULL
    /\ searchK' = 0
    /\ searchScores' = <<>>
    /\ searchRes' = <<>>
    /\ UNCHANGED <<apiKey, datasets, handed, conversations, messages, up, chat,
                   text, textChunks, textPc, call, ret>>

\* searchSimilarChunks(query, topK): embed the query, search the store.
SearchSimilarChunks(queryEmbedding, topK) ==
    /\ searchQ' = Arr(queryEmbedding)
    /\ searchK' = topK
    /\ searchScores' = [i \in 1..Len(Candidates(chunks)) |->
                           chunksWithScores(chunks, queryEmbedding)[i].score]
    /\ searchRes' = searchChunksByEmbedding(chunks, queryEmbedding, topK)
    /\ UNCHANGED <<apiKey, datasets, handed, chunks, conversations, messages,
                   up, chat, text, textChunks, textPc, call, ret>>

NextIndex ==
    \/ \E c \in IndexContents, e \in IndexEmbeddings :
          AddChunkToIndex(c, 1, e, MaxStore)
    \/ \E q \in IndexVecs, k \in IndexLimits : SearchSimilarChunks(q, k)

SpecIndex == InitIndex /\ [][NextIndex]_vars

NextTie ==
    \/ \E e \in TieVecs : AddChunkToIndex("c1", 1, Arr(e), MaxTieStore)
    \/ \E q \in TieQueries, k \in TieLimits : SearchSimilarChunks(q, k)

SpecTie == InitIndex /\ [][NextTie]_vars

(***************************************************************************)
(* The server: POST /api/upload and POST /api/chat requests running        *)
(* concurrently on the one event loop.  An action is the code a request    *)
(* runs between two awaits that give way to another request (an await of a *)
(* MemStorage call gives way too, but nothing it could observe changes     *)
(* across it, so it ends no action).                                       *)
(***************************************************************************)
MaxUploads == 2
MaxFiles == 2
MaxChunks == 2
MaxChats == 1
MaxRows == 1

Uploads == 1..MaxUploads
Chats == 1..MaxChats

\* The uploaded files: originalname, and path.extname(originalname).substring(1).
\* All of them pass multer's fileFilter, which lower-cases the extension.
FileNames == {"a.csv", "b.CSV", "c.txt", "d.jpg"}

ExtName(name) ==
    CASE name = "a.csv" -> "csv"
      [] name = "b.CSV" -> "CSV"
      [] name = "c.txt" -> "txt"
      [] name = "d.jpg" -> "jpg"

ToLowerCaseExt(ext) == IF ext = "CSV" THEN "csv" ELSE ext

\* DataProcessor.processFile's switch: the types it has a processor for.
Supported(fileType) == ToLowerCaseExt(fileType) \in {"csv", "pdf", "txt"}

\* The vectors the embedding provider returns in this specification.
SysVecs == {<<1, 0>>}

\* What generateEmbeddings may return for n texts.  SimpleEmbeddingService (no
\* API key) returns one vector per text; HuggingFaceEmbeddingService returns
\* the response body as it came (or wraps it in a one-element array), so any
\* number of vectors up to n.
VecSeqs(n) == UNION {[1..m -> SysVecs] : m \in 0..n}

EmbeddingsFor(n) == IF apiKey THEN VecSeqs(n) ELSE [1..n -> SysVecs]

\* MemStorage.createDataset: a fresh id, status "processing".
createDatasetByName(ds, name, fileType) ==
    IF \E i \in DOMAIN ds : ds[i].name = name
    THEN [i \in DOMAIN ds |->
            IF ds[i].name = name
            THEN [name |-> name, fileType |-> fileType, status |-> "processing"]
            ELSE ds[i]]
    ELSE Append(ds, [name |-> name, fileType |-> fileType, status |-> "processing"])

createDataset(ds, name, fileType) ==
    Append(ds, [name |-> name, fileType |-> fileType, status |-> "processing"])

\* MemStorage.updateDatasetStatus.
updateDatasetStatus(ds, id, status) ==
    IF id \in DOMAIN ds THEN [ds EXCEPT ![id].status = status] ELSE ds

IdleUpload ==
    [pc |-> "idle", nFiles |-> 0, idx |-> 0, dsId |-> 0, nChunks |-> 0,
     embedCalls |-> 0, embeddings |-> <<>>, built |-> "none", mine |-> {},
     results |-> <<>>]

IdleChat ==
    [pc |-> "idle", query |-> <<>>, conversationId |-> 0, snapshot |-> 0,
     csvDatasets |-> <<>>, next |-> 0, rows |-> 0, failed |-> {},
     retrieved |-> <<>>,
     llmCalls |-> 0, processQuery |-> "none", answer |-> "none",
     sources |-> <<>>, isComputation |-> NULL, http |-> 0]

Init ==
    /\ apiKey \in BOOLEAN
    /\ datasets = <<>>
    /\ handed = <<>>
    /\ chunks = <<>>
    /\ conversations = 0
    /\ messages = <<>>
    /\ up = [u \in Uploads |-> IdleUpload]
    /\ chat = [c \in Chats |-> IdleChat]
    /\ SearchIdle
    /\ ChunkerIdle
    /\ ProcessorIdle

\* The upload loop after file idx: the next file, or res.json({results}).
AfterFile(r) == IF r.idx = r.nFiles THEN "done" ELSE "create"

\* The files of all upload requests so far.
RECURSIVE FilesUploaded(_)
FilesUploaded(u) == IF u = 0 THEN 0 ELSE up[u].nFiles + FilesUploaded(u - 1)

\* POST /api/upload arrives with n files; none is answered 400 at once.
UploadStart(u, n) ==
    /\ up[u].pc = "idle"
    /\ FilesUploaded(MaxUploads) + n <= MaxFiles
    /\ up' = [up EXCEPT ![u].pc = IF n = 0 THEN "done400" ELSE "create",
                        ![u].nFiles = n]
    /\ UNCHANGED <<apiKey, datasets, handed, chunks, conversations, messages,
                   chat, searchQ, searchK, searchScores, searchRes,
                   text, textChunks, textPc, call, ret>>

\* The loop takes the next file and creates its dataset record.
UploadCreateDataset(u, name) ==
    /\ up[u].pc = "create"
    /\ datasets' = createDataset(datasets, name, ExtName(name))
    /\ handed' = Append(handed, 0 - 1)
    /\ up' = [up EXCEPT ![u].pc = "processFile",
                        ![u].idx = @ + 1,
                        ![u].dsId = Len(datasets'),
                        ![u].nChunks = 0,
                        ![u].embedCalls = 0,
                        ![u].embeddings = <<>>,
                        ![u].built = "none",
                        ![u].mine = @ \cup {Len(datasets')}]
    /\ UNCHANGED <<apiKey, chunks, conversations, messages, chat,
                   searchQ, searchK, searchScores, searchRes,
                   text, textChunks, textPc, call, ret>>

UploadProcessFilePerChunk(u, n) ==
    /\ up[u].pc = "processFile"
    /\ Supported(datasets[up[u].dsId].fileType)
    /\ handed' = [handed EXCEPT ![up[u].dsId] = n]
    /\ up' = [up EXCEPT ![u].pc = "embed", ![u].nChunks = n,
                        ![u].embedCalls = @ + n]
    /\ UNCHANGED <<apiKey, datasets, chunks, conversations, messages, chat,
                   searchQ, searchK, searchScores, searchRes,
                   text, textChunks, textPc, call, ret>>

\* processFile returns n chunks; buildIndexForDataset is called with them and
\* sends their contents to the embedding provider in one generateEmbeddings
\* call.
UploadProcessFile(u, n) ==
    /\ up[u].pc = "processFile"
    /\ Supported(datasets[up[u].dsId].fileType)
    /\ handed' = [handed EXCEPT ![up[u].dsId] = n]
    /\ up' = [up EXCEPT ![u].pc = "embed", ![u].nChunks = n,
                        ![u].embedCalls = @ + 1]
    /\ UNCHANGED <<apiKey, datasets, chunks, conversations, messages, chat,
                   searchQ, searchK, searchScores, searchRes,
                   text, textChunks, textPc, call, ret>>

UploadProcessFileThrowsAborts(u) ==
    /\ up[u].pc = "processFile"
    /\ up' = [up EXCEPT ![u].pc = "done",
                        ![u].results = Append(@, "error")]
    /\ UNCHANGED <<apiKey, datasets, handed, chunks, conversations, messages,
                   chat, searchQ, searchK, searchScores, searchRes,
                   text, textChunks, textPc, call, ret>>

\* processFile throws (an unsupported file type, or the file cannot be read or
\* parsed): the handler's catch records the error result and goes on.
UploadProcessFileThrows(u) ==
    /\ up[u].pc = "processFile"
    /\ up' = [up EXCEPT ![u].pc = AfterFile(up[u]),
                        ![u].results = Append(@, "error")]
    /\ UNCHANGED <<apiKey, datasets, handed, chunks, conversations, messages,
                   chat, searchQ, searchK, searchScores, searchRes,
                   text, textChunks, textPc, call, ret>>

\* buildIndexForDataset: generateEmbeddings returns.
BuildIndexEmbed(u, embeddings) ==
    /\ up[u].pc = "embed"
    /\ embeddings \in EmbeddingsFor(up[u].nChunks)
    /\ up' = [up EXCEPT ![u].pc = "store", ![u].embeddings = embeddings]
    /\ UNCHANGED <<apiKey, datasets, handed, chunks, conversations, messages,
                   chat, searchQ, searchK, searchScores, searchRes,
                   text, textChunks, textPc, call, ret>>

\* buildIndexForDataset's catch: the status becomes "error" and the error is
\* thrown on to the handler, whose catch records the error result.
BuildIndexCatchSwallows(r) == [r EXCEPT !.built = "returned",
                                        !.pc = AfterFile(r),
                                        !.results = Append(@, "ready")]

BuildIndexCatch(r) == [r EXCEPT !.built = "threw",
                                !.pc = AfterFile(r),
                                !.results = Append(@, "error")]

\* buildIndexForDataset: generateEmbeddings throws (the HTTP call failed).
BuildIndexEmbedThrows(u) ==
    /\ up[u].pc = "embed"
    /\ apiKey
    /\ datasets' = updateDatasetStatus(datasets, up[u].dsId, "error")
    /\ up' = [up EXCEPT ![u] = BuildIndexCatch(up[u])]
    /\ UNCHANGED <<apiKey, handed, chunks, conversations, messages, chat,
                   searchQ, searchK, searchScores, searchRes,
                   text, textChunks, textPc, call, ret>>

\* The chunks buildIndexForDataset stores: chunks.map calls createChunk for
\* every chunk, each with embeddings[index], which is undefined (stored as
\* null) past the end of embeddings.
RECURSIVE StoreChunks(_, _, _, _, _)
StoreChunks(store, datasetId, n, embeddings, index) ==
    IF index > n THEN store
    ELSE StoreChunks(
            createChunk(store,
                [datasetId |-> datasetId,
                 content |-> index,
                 embedding |-> IF index <= Len(embeddings)
                               THEN Arr(embeddings[index]) ELSE NULL]),
            datasetId, n, embeddings, index + 1)

\* buildIndexForDataset: getDataset returned; every chunk is stored.
BuildIndexStore(u) ==
    /\ up[u].pc = "store"
    /\ chunks' = StoreChunks(chunks, up[u].dsId, up[u].nChunks,
                             up[u].embeddings, 1)
    /\ up' = [up EXCEPT ![u].pc = "ready", ![u].embeddings = <<>>]
    /\ UNCHANGED <<apiKey, datasets, handed, conversations, messages, chat,
                   searchQ, searchK, searchScores, searchRes,
                   text, textChunks, textPc, call, ret>>

\* buildIndexForDataset: Promise.all resolved; the status becomes "ready", the
\* call returns and the handler records the result.
BuildIndexReady(u) ==
    /\ up[u].pc = "ready"
    /\ datasets' = updateDatasetStatus(datasets, up[u].dsId, "ready")
    /\ up' = [up EXCEPT ![u].pc = AfterFile(up[u]),
                        ![u].built = "returned",
                        ![u].results = Append(@, "ready")]
    /\ UNCHANGED <<apiKey, handed, chunks, conversations, messages, chat,
                   searchQ, searchK, searchScores, searchRes,
                   text, textChunks, textPc, call, ret>>

UploadNext ==
    \E u \in Uploads :
        \/ \E n \in 0..MaxFiles : UploadStart(u, n)
        \/ \E name \in FileNames : UploadCreateDataset(u, name)
        \/ \E n \in 0..MaxChunks : UploadProcessFile(u, n)
        \/ UploadProcessFileThrows(u)
        \/ \E e \in VecSeqs(MaxChunks) : BuildIndexEmbed(u, e)
        \/ BuildIndexEmbedThrows(u)
        \/ BuildIndexStore(u)
        \/ BuildIndexReady(u)

(***************************************************************************)
(* DataProcessor.detectComputationalQuery: some keyword is a substring of  *)
(* the lower-cased query.                                                  *)
(***************************************************************************)
UpperCase == <<"A", "B", "C", "D", "E", "F", "G", "H", "I", "J", "K", "L", "M",
               "N", "O", "P", "Q", "R", "S", "T", "U", "V", "W", "X", "Y", "Z">>
LowerCase == <<"a", "b", "c", "d", "e", "f", "g", "h", "i", "j", "k", "l", "m",
               "n", "o", "p", "q", "r", "s", "t", "u", "v", "w", "x", "y", "z">>

toLowerCaseChar(ch) ==
    IF \E i \in DOMAIN UpperCase : UpperCase[i] = ch
    THEN LowerCase[CHOOSE i \in DOMAIN UpperCase : UpperCase[i] = ch]
    ELSE ch

toLowerCase(str) == [i \in 1..Len(str) |-> toLowerCaseChar(str[i])]

includes(str, sub) ==
    \E i \in 1..(Len(str) - Len(sub) + 1) : SubSeq(str, i, i + Len(sub) - 1) = sub

computationKeywords ==
    <<<<"s", "u", "m">>,
      <<"t", "o", "t", "a", "l">>,
      <<"a", "v", "e", "r", "a", "g", "e">>,
      <<"m", "e", "a", "n">>,
      <<"c", "a", "l", "c", "u", "l", "a", "t", "e">>,
      <<"c", "o", "m", "p", "u", "t", "a", "t", "i", "o", "n">>,
      <<"b", "e", "t", "w", "e", "e", "n">>,
      <<"f", "r", "o", "m">>,
      <<"t", "i", "l", "l">>,
      <<"c", "o", "m", "b", "i", "n", "e", "d">>,
      <<"a", "g", "g", "r", "e", "g", "a", "t", "e">>,
      <<"s", "t", "a", "t", "i", "s", "t", "i", "c", "s">>>>

detectComputationalQueryCaseSensitive(query) ==
    \E k \in DOMAIN computationKeywords : includes(query, computationKeywords[k])

detectComputationalQuery(query) ==
    \E k \in DOMAIN computationKeywords :
        includes(toLowerCase(query), computationKeywords[k])

\* The request bodies of this specification: "Sum rice" and "hi rice", and the
\* empty message, which querySchema (message: z.string().min(1)) rejects.
ChatQueries == {<<"S", "u", "m", " ", "r", "i", "c", "e">>, <<"h", "i", " ", "r", "i", "c", "e">>, <<>>}

\* The assistant's answer, by the return statement that produced it.
ChatReturn(r, answer, sources, isComputation) ==
    [r EXCEPT !.pc = "done", !.processQuery = "returned", !.answer = answer,
              !.sources = sources, !.isComputation = Arr(isComputation),
              !.http = 200]

\* processQuery's catch rethrows; the handler's catch answers 500.
ChatThrow(r) == [r EXCEPT !.pc = "done", !.processQuery = "threw", !.http = 500]

AssistantMessage(r) == [conversationId |-> r.conversationId, role |-> "assistant"]

\* POST /api/chat arrives: the body is validated, the conversation created
\* when the body names none, and the user message saved.
ChatStart(c, query, conversationId) ==
    /\ chat[c].pc = "idle"
    /\ query # <<>>
    /\ conversationId \in 0..conversations
    /\ conversations' = IF conversationId = 0 THEN conversations + 1
                        ELSE conversations
    /\ LET id == IF conversationId = 0 THEN conversations + 1 ELSE conversationId
       IN  /\ messages' = Append(messages, [conversationId |-> id, role |-> "user"])
           /\ chat' = [chat EXCEPT ![c].pc = "processQuery",
                                   ![c].query = query,
                                   ![c].conversationId = id]
    /\ UNCHANGED <<apiKey, datasets, handed, chunks, up,
                   searchQ, searchK, searchScores, searchRes,
                   text, textChunks, textPc, call, ret>>

\* POST /api/chat with a body querySchema.parse rejects: 500, nothing stored.
ChatInvalid(c) ==
    /\ chat[c].pc = "idle"
    /\ chat' = [chat EXCEPT ![c].pc = "done", ![c].http = 500]
    /\ UNCHANGED <<apiKey, datasets, handed, chunks, conversations, messages, up,
                   searchQ, searchK, searchScores, searchRes,
                   text, textChunks, textPc, call, ret>>

\* processQuery classifies the query.  Computational: handleComputationalQuery
\* calls getAllDatasets (the datasets that exist now).  Otherwise:
\* handleRAGQuery calls searchSimilarChunks, which asks for the query's
\* embedding.
ProcessQuery(c) ==
    /\ chat[c].pc = "processQuery"
    /\ chat' = [chat EXCEPT
                  ![c].pc = IF detectComputationalQuery(chat[c].query)
                            THEN "filter" ELSE "embed",
                  ![c].snapshot = Len(datasets)]
    /\ UNCHANGED <<apiKey, datasets, handed, chunks, conversations, messages, up,
                   searchQ, searchK, searchScores, searchRes,
                   text, textChunks, textPc, call, ret>>

\* handleComputationalQuery's filter, over the datasets getAllDatasets
\* returned, with the status each has now.
RECURSIVE csvDatasetsFrom(_, _, _)
csvDatasetsFrom(ds, snapshot, i) ==
    IF i > snapshot THEN <<>>
    ELSE (IF ds[i].fileType = "csv" /\ ds[i].status = "ready" THEN <<i>> ELSE <<>>)
         \o csvDatasetsFrom(ds, snapshot, i + 1)

DatasetNames(ids) == [i \in 1..Len(ids) |-> datasets[ids[i]].name]

\* handleComputationalQuery: no ready CSV dataset returns at once; otherwise
\* the first file is opened.
ComputationalFilter(c) ==
    /\ chat[c].pc = "filter"
    /\ LET csv == csvDatasetsFrom(datasets, chat[c].snapshot, 1)
           r == [chat[c] EXCEPT !.csvDatasets = csv, !.next = 1]
       IN  IF csv = <<>>
           THEN /\ chat' = [chat EXCEPT ![c] = ChatReturn(r, "noCsvDatasets", <<>>, TRUE)]
                /\ messages' = Append(messages, AssistantMessage(r))
           ELSE /\ chat' = [chat EXCEPT ![c] = [r EXCEPT !.pc = "load"]]
                /\ UNCHANGED messages
    /\ UNCHANGED <<apiKey, datasets, handed, chunks, conversations, up,
                   searchQ, searchK, searchScores, searchRes,
                   text, textChunks, textPc, call, ret>>

\* handleComputationalQuery's loop: loadCsvData of the next dataset gives n
\* rows, or fails (n = -1; the error is logged and the loop goes on).  After
\* the last one: no row at all returns the "unable to load" answer, otherwise
\* performAgriculturalComputation's result is returned; both name every
\* dataset of csvDatasets as a source.
ComputationalLoad(c, n) ==
    /\ chat[c].pc = "load"
    /\ LET r == [chat[c] EXCEPT !.next = @ + 1,
                                !.rows = @ + (IF n < 0 THEN 0 ELSE n),
                                !.failed = IF n < 0
                                           THEN @ \cup {chat[c].csvDatasets[chat[c].next]}
                                           ELSE @]
           names == DatasetNames(r.csvDatasets)
       IN  IF r.next <= Len(r.csvDatasets)
           THEN /\ chat' = [chat EXCEPT ![c] = r]
                /\ UNCHANGED messages
           ELSE /\ chat' = [chat EXCEPT ![c] =
                              ChatReturn(r, IF r.rows = 0 THEN "unableToLoad"
                                            ELSE "computationResult", names,
                                         TRUE)]
                /\ messages' = Append(messages, AssistantMessage(r))
    /\ UNCHANGED <<apiKey, datasets, handed, chunks, conversations, up,
                   searchQ, searchK, searchScores, searchRes,
                   text, textChunks, textPc, call, ret>>

RagSearchAlwaysGenerates(c, queryEmbedding) ==
    /\ chat[c].pc = "embed"
    /\ chat' = [chat EXCEPT
                  ![c].retrieved = searchChunksByEmbedding(chunks, queryEmbedding,
                                                           DefaultLimit),
                  ![c].pc = "generate",
                  ![c].llmCalls = @ + 1]
    /\ UNCHANGED <<apiKey, datasets, handed, chunks, conversations, messages, up,
                   searchQ, searchK, searchScores, searchRes,
                   text, textChunks, textPc, call, ret>>

\* searchSimilarChunks: the query's embedding arrives and the store is
\* searched.  No chunk: handleRAGQuery returns the fixed answer.  Otherwise
\* the prompt is built and sent to the language model.
RagSearch(c, queryEmbedding) ==
    /\ chat[c].pc = "embed"
    /\ LET found == searchChunksByEmbedding(chunks, queryEmbedding, DefaultLimit)
           r == [chat[c] EXCEPT !.retrieved = found]
       IN  IF found = <<>>
           THEN /\ chat' = [chat EXCEPT ![c] =
                              ChatReturn(r, "insufficient", <<>>, FALSE)]
                /\ messages' = Append(messages, AssistantMessage(r))
           ELSE /\ chat' = [chat EXCEPT ![c] = [r EXCEPT !.pc = "generate",
                                                         !.llmCalls = @ + 1]]
                /\ UNCHANGED messages
    /\ UNCHANGED <<apiKey, datasets, handed, chunks, conversations, up,
                   searchQ, searchK, searchScores, searchRes,
                   text, textChunks, textPc, call, ret>>

\* searchSimilarChunks: generateEmbedding throws (HuggingFaceEmbeddingService's
\* HTTP call failed); "Vector search failed" is thrown through handleRAGQuery.
RagSearchThrows(c) ==
    /\ chat[c].pc = "embed"
    /\ apiKey
    /\ chat' = [chat EXCEPT ![c] = ChatThrow(chat[c])]
    /\ UNCHANGED <<apiKey, datasets, handed, chunks, conversations, messages, up,
                   searchQ, searchK, searchScores, searchRes,
                   text, textChunks, textPc, call, ret>>

RagSourcesWithDuplicates(r) ==
    [i \in 1..Len(r.retrieved) |->
        [at |-> i, label |-> datasets[chunks[r.retrieved[i]].datasetId].name]]

\* The source labels of the retrieved chunks, first occurrence of each.
RagSources(r) ==
    LET labels == [i \in 1..Len(r.retrieved) |->
                      datasets[chunks[r.retrieved[i]].datasetId].name]
    IN  SelectSeq([i \in 1..Len(labels) |-> [at |-> i, label |-> labels[i]]],
                  LAMBDA x : \A j \in 1..(x.at - 1) : labels[j] # x.label)

\* generateResponse returns a text (the model's, or without an API key the
\* fallback text of its catch); handleRAGQuery returns the answer.
RagGenerate(c) ==
    /\ chat[c].pc = "generate"
    /\ LET src == RagSources(chat[c])
       IN  chat' = [chat EXCEPT ![c] =
                      ChatReturn(chat[c], "generated",
                                 [i \in 1..Len(src) |-> src[i].label], FALSE)]
    /\ messages' = Append(messages, AssistantMessage(chat[c]))
    /\ UNCHANGED <<apiKey, datasets, handed, chunks, conversations, up,
                   searchQ, searchK, searchScores, searchRes,
                   text, textChunks, textPc, call, ret>>

\* generateResponse throws: the HTTP call failed and an API key is set.
RagGenerateThrows(c) ==
    /\ chat[c].pc = "generate"
    /\ apiKey
    /\ chat' = [chat EXCEPT ![c] = ChatThrow(chat[c])]
    /\ UNCHANGED <<apiKey, datasets, handed, chunks, conversations, messages, up,
                   searchQ, searchK, searchScores, searchRes,
                   text, textChunks, textPc, call, ret>>

ChatNext ==
    \E c \in Chats :
        \/ \E q \in ChatQueries, id \in 0..MaxChats : ChatStart(c, q, id)
        \/ ChatInvalid(c)
        \/ ProcessQuery(c)
        \/ ComputationalFilter(c)
        \/ \E n \in (0 - 1)..MaxRows : ComputationalLoad(c, n)
        \/ \E q \in SysVecs : RagSearch(c, q)
        \/ RagSearchThrows(c)
        \/ RagGenerate(c)
        \/ RagGenerateThrows(c)

Next == UploadNext \/ ChatNext

Spec == Init /\ [][Next]_vars

(***************************************************************************)
(* Progress.  The steps the server takes by itself are taken eventually:   *)
(* storage calls, file reading, and the embedding of SimpleEmbeddingService *)
(* (no API key), which is computed locally.  The answers of the Hugging    *)
(* Face endpoints are not: axios.post is called without a timeout option   *)
(* (axios' default is 0, no timeout) and with wait_for_model, so a request *)
(* the endpoint never answers stays pending.                               *)
(***************************************************************************)
ServerStep ==
    \/ \E u \in Uploads :
          \/ \E name \in FileNames : UploadCreateDataset(u, name)
          \/ \E n \in 0..MaxChunks : UploadProcessFile(u, n)
          \/ UploadProcessFileThrows(u)
          \/ ~apiKey /\ \E e \in VecSeqs(MaxChunks) : BuildIndexEmbed(u, e)
          \/ BuildIndexStore(u)
          \/ BuildIndexReady(u)
    \/ \E c \in Chats :
          \/ ProcessQuery(c)
          \/ ComputationalFilter(c)
          \/ \E n \in (0 - 1)..MaxRows : ComputationalLoad(c, n)
          \/ ~apiKey /\ \E q \in SysVecs : RagSearch(c, q)

SpecLive == Init /\ [][Next]_vars /\ WF_vars(ServerStep)

(***************************************************************************)
(* DataProcessor.chunkText(text, metadata, chunkSize, overlap) on a text   *)
(* over a small alphabet.  The code's callers use chunkSize 1000 and       *)
(* overlap 200; the specification runs the same code with ChunkSize and    *)
(* Overlap.                                                                *)
(***************************************************************************)
MaxTextLen == 6
ChunkSize == 4
Overlap == 2

Alphabet == {"a", " ", ".", "!", "?"}
Texts == UNION {[1..n -> Alphabet] : n \in 0..MaxTextLen}

IsTerminator(ch) == ch \in {".", "!", "?"}
IsWhitespace(ch) == ch = " "

RECURSIVE trimStart(_)
trimStart(str) ==
    IF str # <<>> /\ IsWhitespace(Head(str)) THEN trimStart(Tail(str)) ELSE str

RECURSIVE trimEnd(_)
trimEnd(str) ==
    IF str # <<>> /\ IsWhitespace(str[Len(str)])
    THEN trimEnd(SubSeq(str, 1, Len(str) - 1))
    ELSE str

trim(str) == trimEnd(trimStart(str))

\* text.split(/[.!?]+/): the pieces between runs of terminators, the empty
\* piece before a leading run and after a trailing run included.
RECURSIVE splitFrom(_, _, _)
splitFrom(str, i, piece) ==
    IF i > Len(str) THEN <<piece>>
    ELSE IF IsTerminator(str[i])
         THEN IF i > 1 /\ IsTerminator(str[i - 1])
              THEN splitFrom(str, i + 1, piece)
              ELSE <<piece>> \o splitFrom(str, i + 1, <<>>)
         ELSE splitFrom(str, i + 1, Append(piece, str[i]))

split(str) == splitFrom(str, 1, <<>>)

sentencesOf(str) == SelectSeq(split(str), LAMBDA p : Len(trim(p)) > 0)

\* currentChunk.slice(-overlap): the last overlap characters; slice(-0) is
\* slice(0), the whole string.
sliceLast(str, overlap) ==
    IF overlap = 0 \/ overlap >= Len(str) THEN str
    ELSE SubSeq(str, Len(str) - overlap + 1, Len(str))

TextChunkTruncated(currentChunk, chunkIndex) ==
    [content |-> SubSeq(trim(currentChunk), 1,
                        Min(Len(trim(currentChunk)), ChunkSize)),
     chunkIndex |-> chunkIndex, length |-> Len(currentChunk)]

TextChunk(currentChunk, chunkIndex) ==
    [content |-> trim(currentChunk), chunkIndex |-> chunkIndex,
     length |-> Len(currentChunk)]

\* The for loop over the sentences, from sentence i on, and the last chunk.
RECURSIVE chunkLoop(_, _, _, _, _, _, _)
chunkLoop(sentences, i, out, currentChunk, currentLength, chunkSize, overlap) ==
    IF i > Len(sentences)
    THEN IF Len(trim(currentChunk)) > 0
         THEN Append(out, TextChunk(currentChunk, Len(out)))
         ELSE out
    ELSE LET sentence == sentences[i]
             sentenceLength == Len(sentence)
         IN  IF currentLength + sentenceLength > chunkSize /\ Len(currentChunk) > 0
             THEN LET overlapText == sliceLast(currentChunk, overlap)
                  IN  chunkLoop(sentences, i + 1,
                                Append(out, TextChunk(currentChunk, Len(out))),
                                overlapText \o sentence,
                                Len(overlapText) + sentenceLength,
                                chunkSize, overlap)
             ELSE chunkLoop(sentences, i + 1, out,
                            currentChunk \o sentence \o <<".", " ">>,
                            currentLength + sentenceLength,
                            chunkSize, overlap)

chunkText(str, chunkSize, overlap) ==
    chunkLoop(sentencesOf(str), 1, <<>>, <<>>, 0, chunkSize, overlap)

InitChunk ==
    /\ SystemIdle
    /\ ProcessorIdle
    /\ SearchIdle
    /\ chunks = <<>>
    /\ text \in Texts
    /\ textChunks = <<>>
    /\ textPc = "input"

\* processText / processPDF: the extracted text is chunked.
ChunkText ==
    /\ textPc = "input"
    /\ textChunks' = chunkText(text, ChunkSize, Overlap)
    /\ textPc' = "done"
    /\ UNCHANGED <<apiKey, datasets, handed, chunks, conversations, messages,
                   up, chat, searchQ, searchK, searchScores, searchRes, text,
                   call, ret>>

NextChunk == ChunkText

SpecChunk == InitChunk /\ [][NextChunk]_vars

(***************************************************************************)
(* DataProcessor.processCSV, detectComputationalQuery and                  *)
(* performAgriculturalComputation, called on their own.  A row is what     *)
(* csv-parser emits: an object, here the sequence of its <<key, value>>    *)
(* entries in Object.entries order (integer-like keys first).              *)
(***************************************************************************)
MaxCsvRows == 2

Digits == <<"0", "1", "2", "3", "4", "5", "6", "7", "8", "9">>

\* Number.prototype.toString of a non-negative integer.
RECURSIVE toString(_)
toString(n) ==
    IF n < 10 THEN <<Digits[n + 1]>>
    ELSE toString(n \div 10) \o <<Digits[(n % 10) + 1]>>

\* Array.prototype.join.
RECURSIVE join(_, _)
join(strs, sep) ==
    IF strs = <<>> THEN <<>>
    ELSE IF Len(strs) = 1 THEN strs[1]
    ELSE strs[1] \o sep \o join(Tail(strs), sep)

keysOf(row) == [i \in 1..Len(row) |-> row[i][1]]
valuesOf(row) == [i \in 1..Len(row) |-> row[i][2]]

CsvRows ==
    { <<<<<<"2", "0", "2", "0">>, <<"1", "0", "0">>>>, <<<<"2", "0", "2", "1">>, <<"1", "2", "0">>>>, <<<<"c", "r", "o", "p">>, <<"r", "i", "c", "e">>>>, <<<<"s", "t", "a", "t", "e">>, <<"p", "u", "n", "j", "a", "b">>>>>>,
      <<<<<<"2", "0", "2", "0">>, <<"7">>>>, <<<<"2", "0", "2", "1">>, <<"N", "A">>>>, <<<<"c", "r", "o", "p">>, <<"w", "h", "e", "a", "t">>>>, <<<<"s", "t", "a", "t", "e">>, <<"k", "e", "r", "a", "l", "a">>>>>>,
      <<<<<<"2", "0", "2", "0">>, <<"3", "0">>>>, <<<<"2", "0", "2", "1">>, <<"4", "5">>>>, <<<<"c", "r", "o", "p">>, <<"R", "i", "c", "e">>>>, <<<<"s", "t", "a", "t", "e">>, <<"A", "s", "s", "a", "m">>>>>> }

CsvFiles == UNION {[1..n -> CsvRows] : n \in 0..MaxCsvRows}

rowContent(row) ==
    join([i \in 1..Len(row) |-> row[i][1] \o <<":", " ">> \o row[i][2]],
         <<",", " ">>)

summaryContent(rows) ==
    <<"C", "S", "V", " ", "D", "a", "t", "a", "s", "e", "t", " ", "w", "i", "t", "h", " ", "c", "o", "l", "u", "m", "n", "s", ":", " ">> \o join(keysOf(rows[1]), <<",", " ">>) \o <<".", " ", "T", "o", "t", "a", "l", " ", "r", "o", "w", "s", ":", " ">> \o toString(Len(rows))

processCSV(rows) ==
    [index \in 1..Len(rows) |->
        [content |-> rowContent(rows[index]), type |-> "csv_row",
         rowIndex |-> index - 1, originalData |-> rows[index]]]
    \o (IF Len(rows) > 0
        THEN <<[content |-> summaryContent(rows), type |-> "csv_summary",
                headers |-> keysOf(rows[1]), totalRows |-> Len(rows)]>>
        ELSE <<>>)

ProcessorUnchanged ==
    UNCHANGED <<apiKey, datasets, handed, chunks, conversations, messages,
                up, chat, searchQ, searchK, searchScores, searchRes,
                text, textChunks, textPc, call>>

ProcessCSV ==
    /\ call.fn = "processCSV"
    /\ ret = NULL
    /\ ret' = Arr(processCSV(call.rows))
    /\ ProcessorUnchanged

\* The sample questions of the chat sidebar.
sampleQuestions ==
    <<<<"W", "h", "a", "t", " ", "i", "s", " ", "t", "h", "e", " ", "t", "o", "t", "a", "l", " ", "r", "i", "c", "e", " ", "p", "r", "o", "d", "u", "c", "t", "i", "o", "n", " ", "i", "n", " ", "P", "u", "n", "j", "a", "b", " ", "f", "r", "o", "m", " ", "2", "0", "2", "0", " ", "t", "o", " ", "2", "0", "2", "2", "?">>,
      <<"W", "h", "a", "t", " ", "a", "r", "e", " ", "t", "h", "e", " ", "b", "e", "s", "t", " ", "p", "r", "a", "c", "t", "i", "c", "e", "s", " ", "f", "o", "r", " ", "w", "h", "e", "a", "t", " ", "c", "u", "l", "t", "i", "v", "a", "t", "i", "o", "n", "?">>,
      <<"S", "h", "o", "w", " ", "w", "e", "a", "t", "h", "e", "r", " ", "f", "o", "r", "e", "c", "a", "s", "t", " ", "f", "o", "r", " ", "n", "e", "x", "t", " ", "w", "e", "e", "k">>>>

ProcessorQueries ==
    {sampleQuestions[i] : i \in DOMAIN sampleQuestions} \cup
    {<<"S", "u", "m", " ", "r", "i", "c", "e">>,
     <<"h", "i", " ", "r", "i", "c", "e">>,
     <<"T", "O", "T", "A", "L", " ", "m", "a", "i", "z", "e", " ", "i", "n", " ", "A", "s", "s", "a", "m", " ", "2", "0", "2", "1">>,
     <<"a", "v", "e", "r", "a", "g", "e", " ", "2", "0", "2", "0">>,
     <<"m", "e", "a", "n", " ", "w", "h", "e", "a", "t", " ", "i", "n", " ", "k", "e", "r", "a", "l", "a">>,
     <<"R", "i", "c", "e", " ", "i", "n", " ", "P", "u", "n", "j", "a", "b", " ", "2", "0", "2", "1">>,
     <<>>}

DetectComputationalQuery ==
    /\ call.fn = "detectComputationalQuery"
    /\ ret = NULL
    /\ ret' = Arr(detectComputationalQuery(call.query))
    /\ ProcessorUnchanged

\* performAgriculturalComputation: the closed vocabularies, in the order
\* Array.prototype.find scans them.
crops ==
    <<<<"r", "i", "c", "e">>,
      <<"w", "h", "e", "a", "t">>,
      <<"m", "a", "i", "z", "e">>,
      <<"j", "o", "w", "a", "r">>,
      <<"b", "a", "j", "r", "a">>,
      <<"r", "a", "g", "i">>,
      <<"c", "o", "t", "t", "o", "n">>,
      <<"s", "u", "g", "a", "r", "c", "a", "n", "e">>>>

states ==
    <<<<"a", "n", "d", "h", "r", "a", " ", "p", "r", "a", "d", "e", "s", "h">>,
      <<"a", "s", "s", "a", "m">>,
      <<"k", "e", "r", "a", "l", "a">>,
      <<"m", "a", "n", "i", "p", "u", "r">>,
      <<"m", "a", "h", "a", "r", "a", "s", "h", "t", "r", "a">>,
      <<"m", "a", "d", "h", "y", "a", " ", "p", "r", "a", "d", "e", "s", "h">>,
      <<"p", "u", "n", "j", "a", "b">>,
      <<"t", "a", "m", "i", "l", " ", "n", "a", "d", "u">>,
      <<"o", "r", "i", "s", "s", "a">>,
      <<"k", "a", "r", "n", "a", "t", "a", "k", "a">>,
      <<"g", "u", "j", "a", "r", "a", "t">>>>

\* Array.prototype.find with (x => queryLower.includes(x)): the first match,
\* or undefined (NULL).
find(list, queryLower) ==
    IF \E i \in DOMAIN list : includes(queryLower, list[i])
    THEN Arr(list[CHOOSE i \in DOMAIN list :
                    /\ includes(queryLower, list[i])
                    /\ \A j \in 1..(i - 1) : ~includes(queryLower, list[j])])
    ELSE NULL

IsDigit(ch) == \E d \in DOMAIN Digits : Digits[d] = ch

DigitValue(ch) == (CHOOSE d \in DOMAIN Digits : Digits[d] = ch) - 1

\* parseInt of a string of digits.
RECURSIVE parseInt(_)
parseInt(str) ==
    IF str = <<>> THEN 0
    ELSE 10 * parseInt(SubSeq(str, 1, Len(str) - 1)) + DigitValue(str[Len(str)])

\* query.match(/\d{4}/g): the groups of four digits, left to right, without
\* overlap.
RECURSIVE matchYears(_, _)
matchYears(str, i) ==
    IF i + 3 > Len(str) THEN <<>>
    ELSE IF \A j \in i..(i + 3) : IsDigit(str[j])
         THEN <<SubSeq(str, i, i + 3)>> \o matchYears(str, i + 4)
         ELSE matchYears(str, i + 1)

yearsOf(query) ==
    LET yearMatches == matchYears(query, 1)
    IN  [i \in 1..Len(yearMatches) |-> parseInt(yearMatches[i])]

\* parseFloat of a cell: the number its leading digits spell, NaN (NULL) when
\* it has none.  The cells of CsvRows carry no sign, point or exponent.
RECURSIVE leadingDigits(_)
leadingDigits(str) ==
    IF str # <<>> /\ IsDigit(Head(str))
    THEN <<Head(str)>> \o leadingDigits(Tail(str))
    ELSE <<>>

parseFloat(str) ==
    LET digits == leadingDigits(trimStart(str))
    IN  IF digits = <<>> THEN NULL ELSE Arr(parseInt(digits))

toUpperCaseChar(ch) ==
    IF \E i \in DOMAIN LowerCase : LowerCase[i] = ch
    THEN UpperCase[CHOOSE i \in DOMAIN LowerCase : LowerCase[i] = ch]
    ELSE ch

\* str.charAt(0).toUpperCase() + str.slice(1)
capitalize(str) ==
    IF str = <<>> THEN <<>> ELSE <<toUpperCaseChar(str[1])>> \o Tail(str)

\* Number.prototype.toFixed(2) of hundredths / 100.
toFixed2(hundredths) ==
    toString(hundredths \div 100) \o <<".">> \o
    <<Digits[((hundredths % 100) \div 10) + 1], Digits[(hundredths % 10) + 1]>>

\* total / count, in hundredths, rounded as toFixed rounds.
averageHundredths(total, count) == (200 * total + count) \div (2 * count)

RECURSIVE MinOf(_)
MinOf(s) == IF Len(s) = 1 THEN s[1] ELSE Min(s[1], MinOf(Tail(s)))

RECURSIVE MaxOf(_)
MaxOf(s) ==
    IF Len(s) = 1 THEN s[1]
    ELSE LET m == MaxOf(Tail(s)) IN IF s[1] > m THEN s[1] ELSE m

filterRowCropOnly(row, crop, state) ==
    includes(toLowerCase(join(valuesOf(row), <<" ">>)), crop)

\* The filter of the rows by crop and, when the query names one, state.
filterRow(row, crop, state) ==
    LET rowText == toLowerCase(join(valuesOf(row), <<" ">>))
        hasCrop == includes(rowText, crop)
        hasState == state = NULL \/ includes(rowText, state[1])
    IN  hasCrop /\ hasState

\* The numeric cells of one row whose column the years select.
RECURSIVE rowValues(_, _, _)
rowValues(row, years, i) ==
    IF i > Len(row) THEN <<>>
    ELSE LET key == row[i][1]
             numValue == parseFloat(row[i][2])
             selected == \/ Len(years) = 0
                         \/ \E y \in DOMAIN years : includes(key, toString(years[y]))
         IN  (IF selected /\ numValue # NULL THEN numValue ELSE <<>>)
             \o rowValues(row, years, i + 1)

RECURSIVE valuesFrom(_, _)
valuesFrom(filteredData, years) ==
    IF filteredData = <<>> THEN <<>>
    ELSE rowValues(Head(filteredData), years, 1)
         \o valuesFrom(Tail(filteredData), years)

ClarificationMessage ==
    <<"P", "l", "e", "a", "s", "e", " ", "s", "p", "e", "c", "i", "f", "y", " ", "a", " ", "c", "r", "o", "p", " ", "f", "o", "r", " ", "c", "o", "m", "p", "u", "t", "a", "t", "i", "o", "n", " ", "(", "e", ".", "g", ".", ",", " ", "r", "i", "c", "e", ",", " ", "w", "h", "e", "a", "t", ",", " ", "m", "a", "i", "z", "e", ")", ".">>

NoNumericMessage ==
    <<"N", "o", " ", "n", "u", "m", "e", "r", "i", "c", " ", "d", "a", "t", "a", " ", "f", "o", "u", "n", "d", " ", "f", "o", "r", " ", "c", "o", "m", "p", "u", "t", "a", "t", "i", "o", "n", ".">>

NoDataMessage(crop, state) ==
    <<"N", "o", " ", "d", "a", "t", "a", " ", "f", "o", "u", "n", "d", " ", "f", "o", "r", " ">> \o crop
    \o (IF state # NULL THEN <<" ", "i", "n", " ">> \o state[1] ELSE <<>>) \o <<".">>

ResultMessage(crop, state, years, values) ==
    LET total == SeqSum(values)
        yearRange == IF Len(years) > 0
                     THEN toString(MinOf(years)) \o <<"-">> \o toString(MaxOf(years))
                     ELSE <<"a", "v", "a", "i", "l", "a", "b", "l", "e", " ", "y", "e", "a", "r", "s">>
        stateText == IF state # NULL
                     THEN <<" ", "i", "n", " ">> \o capitalize(state[1])
                     ELSE <<>>
    IN  <<"C", "o", "m", "p", "u", "t", "a", "t", "i", "o", "n", " ", "R", "e", "s", "u", "l", "t", "s", " ", "f", "o", "r", " ">> \o capitalize(crop) \o stateText
        \o <<" ", "(">> \o yearRange \o <<")", ":", "\n">>
        \o <<"T", "o", "t", "a", "l", ":", " ">> \o toFixed2(100 * total) \o <<"\n">>
        \o <<"A", "v", "e", "r", "a", "g", "e", ":", " ">> \o toFixed2(averageHundredths(total, Len(values))) \o <<"\n">>
        \o <<"D", "a", "t", "a", " ", "p", "o", "i", "n", "t", "s", ":", " ">> \o toString(Len(values))

\* The body after the crop check: filter, collect, aggregate.
aggregate(query, csvData, crop, state) ==
    LET years == yearsOf(query)
        filteredData == SelectSeq(csvData, LAMBDA row : filterRow(row, crop, state))
        values == valuesFrom(filteredData, years)
    IN  IF filteredData = <<>> THEN NoDataMessage(crop, state)
        ELSE IF values = <<>> THEN NoNumericMessage
        ELSE ResultMessage(crop, state, years, values)

performAgriculturalComputationAnyCrop(query, csvData) ==
    LET queryLower == toLowerCase(query)
        crop == find(crops, queryLower)
        state == find(states, queryLower)
    IN  aggregate(query, csvData, IF crop = NULL THEN <<>> ELSE crop[1], state)

performAgriculturalComputation(query, csvData) ==
    LET queryLower == toLowerCase(query)
        crop == find(crops, queryLower)
        state == find(states, queryLower)
    IN  IF crop = NULL THEN ClarificationMessage
        ELSE aggregate(query, csvData, crop[1], state)

PerformAgriculturalComputation ==
    /\ call.fn = "performAgriculturalComputation"
    /\ ret = NULL
    /\ ret' = Arr(performAgriculturalComputation(call.query, call.csvData))
    /\ ProcessorUnchanged

ProcessorCalls ==
    {[fn |-> "processCSV", rows |-> rows] : rows \in CsvFiles} \cup
    {[fn |-> "detectComputationalQuery", query |-> q] : q \in ProcessorQueries} \cup
    {[fn |-> "performAgriculturalComputation", query |-> q, csvData |-> rows] :
        q \in ProcessorQueries, rows \in CsvFiles}

InitProcessor ==
    /\ SystemIdle
    /\ SearchIdle
    /\ ChunkerIdle
    /\ chunks = <<>>
    /\ call \in ProcessorCalls
    /\ ret = NULL

NextProcessor ==
    \/ ProcessCSV
    \/ DetectComputationalQuery
    \/ PerformAgriculturalComputation

SpecProcessor == InitProcessor /\ [][NextProcessor]_vars

(***************************************************************************)
(* RAGPipelineService.postProcessResponse, called on its own on a raw      *)
(* response made of up to MaxTokens pieces: a label, a blank or a word.    *)
(***************************************************************************)
MaxTokens == 3

unwantedPrefixes ==
    <<<<"A", "n", "s", "w", "e", "r", ":">>,
      <<"R", "e", "s", "p", "o", "n", "s", "e", ":">>,
      <<"A", ":">>>>

ResponseTokens ==
    {unwantedPrefixes[i] : i \in DOMAIN unwantedPrefixes} \cup {<<" ">>, <<"x">>}

RawResponses ==
    {join(tokens, <<>>) : tokens \in UNION {[1..n -> ResponseTokens] : n \in 0..MaxTokens}}

startsWith(str, prefix) ==
    /\ Len(prefix) <= Len(str)
    /\ SubSeq(str, 1, Len(prefix)) = prefix

\* str.substring(n): the characters from index n on.
substring(str, n) == SubSeq(str, n + 1, Len(str))

\* The for loop over unwantedPrefixes, from prefix i on: one pass.
RECURSIVE stripPrefixes(_, _)
stripPrefixes(cleanedResponse, i) ==
    IF i > Len(unwantedPrefixes) THEN cleanedResponse
    ELSE LET prefix == unwantedPrefixes[i]
         IN  IF startsWith(cleanedResponse, prefix)
             THEN stripPrefixes(trim(substring(cleanedResponse, Len(prefix))), i + 1)
             ELSE stripPrefixes(cleanedResponse, i + 1)

postProcessResponse(response) == stripPrefixes(trim(response), 1)

PostProcessResponse ==
    /\ call.fn = "postProcessResponse"
    /\ ret = NULL
    /\ ret' = Arr(postProcessResponse(call.response))
    /\ ProcessorUnchanged

InitPipeline ==
    /\ SystemIdle
    /\ SearchIdle
    /\ ChunkerIdle
    /\ chunks = <<>>
    /\ call \in {[fn |-> "postProcessResponse", response |-> r] : r \in RawResponses}
    /\ ret = NULL

NextPipeline == PostProcessResponse

SpecPipeline == InitPipeline /\ [][NextPipeline]_vars

(***************************************************************************)
(* MemStorage.createMessage and getMessagesByConversation, called on their *)
(* own.  A message is stored under a fresh id, so the Map iterates in      *)
(* creation order; createdAt is the clock reading of new Date(), which is  *)
(* the reading of the message before it or a later one.                    *)
(***************************************************************************)
MaxMessages == 4
MaxConversations == 2

ConversationIds == 1..MaxConversations
Roles == {"user", "assistant"}

createMessage(store, insertMessage, now) ==
    Append(store, [conversationId |-> insertMessage.conversationId,
                   role |-> insertMessage.role,
                   createdAt |-> now])

\* The comparator (a, b) => a.createdAt.getTime() - b.createdAt.getTime().
compareCreatedAt(store, a, b) == store[a].createdAt - store[b].createdAt

\* Array.prototype.sort with a consistent comparator is the stable sort:
\* each element goes after every element that does not compare greater.
RECURSIVE insertSorted(_, _, _)
insertSorted(store, sorted, id) ==
    IF sorted = <<>> THEN <<id>>
    ELSE IF compareCreatedAt(store, id, sorted[Len(sorted)]) >= 0
         THEN Append(sorted, id)
         ELSE Append(insertSorted(store, SubSeq(sorted, 1, Len(sorted) - 1), id),
                     sorted[Len(sorted)])

RECURSIVE sortByCreatedAt(_, _, _)
sortByCreatedAt(store, ids, sorted) ==
    IF ids = <<>> THEN sorted
    ELSE sortByCreatedAt(store, Tail(ids), insertSorted(store, sorted, Head(ids)))

getMessagesByConversationNewestFirst(store, conversationId) ==
    Reverse(SelectSeq([i \in 1..Len(store) |-> i],
                      LAMBDA id : store[id].conversationId = conversationId))

\* The ids (positions in creation order) of the messages returned.
getMessagesByConversation(store, conversationId) ==
    sortByCreatedAt(store,
                    SelectSeq([i \in 1..Len(store) |-> i],
                              LAMBDA id : store[id].conversationId = conversationId),
                    <<>>)

LastCreatedAt == IF messages = <<>> THEN 0 ELSE messages[Len(messages)].createdAt

MessagesUnchanged ==
    UNCHANGED <<apiKey, datasets, handed, chunks, conversations, up, chat,
                searchQ, searchK, searchScores, searchRes,
                text, textChunks, textPc>>

CreateMessage(conversationId, role, elapsed) ==
    /\ Len(messages) < MaxMessages
    /\ messages' = createMessage(messages,
                                 [conversationId |-> conversationId, role |-> role],
                                 LastCreatedAt + elapsed)
    /\ call' = [fn |-> "createMessage"]
    /\ ret' = NULL
    /\ MessagesUnchanged

GetMessagesByConversation(conversationId) ==
    /\ call' = [fn |-> "getMessagesByConversation", conversationId |-> conversationId]
    /\ ret' = Arr(getMessagesByConversation(messages, conversationId))
    /\ UNCHANGED messages
    /\ MessagesUnchanged

InitMessages ==
    /\ SystemIdle
    /\ SearchIdle
    /\ ChunkerIdle
    /\ ProcessorIdle
    /\ chunks = <<>>

NextMessages ==
    \/ \E id \in ConversationIds, role \in Roles, elapsed \in {0, 1} :
          CreateMessage(id, role, elapsed)
    \/ \E id \in ConversationIds : GetMessagesByConversation(id)

SpecMessages == InitMessages /\ [][NextMessages]_vars

(***************************************************************************)
(* C1: processQuery never throws to its caller: whatever the embedding     *)
(* provider, the search, the CSV reader and the language model do, the     *)
(* call ends by returning an answer.                                       *)
(***************************************************************************)
C1_ProcessQueryNeverThrows ==
    \A c \in Chats : chat[c].processQuery # "threw"

(***************************************************************************)
(* C2: a dataset whose status is "ready" has every chunk that was handed   *)
(* to buildIndexForDataset stored, each with an embedding.                 *)
(***************************************************************************)
StoredWithEmbedding(d, index) ==
    \E i \in DOMAIN chunks :
        /\ chunks[i].datasetId = d
        /\ chunks[i].content = index
        /\ HasEmbedding(chunks[i])

C2_ReadyMeansAllEmbedded ==
    \A d \in DOMAIN datasets :
        datasets[d].status = "ready" =>
            /\ handed[d] >= 0
            /\ \A index \in 1..handed[d] : StoredWithEmbedding(d, index)

(***************************************************************************)
(* C3: once an upload request has finished, none of the datasets it        *)
(* created is still "processing".                                          *)
(***************************************************************************)
C3_FinishedUploadLeavesProcessing ==
    \A u \in Uploads :
        up[u].pc = "done" =>
            \A d \in up[u].mine : datasets[d].status # "processing"

(***************************************************************************)
(* C4: buildIndexForDataset ends in one of two ways: it has returned and   *)
(* the dataset is "ready", or it has thrown and the dataset is "error";    *)
(* while it runs the dataset is "processing".                              *)
(***************************************************************************)
C4_BuildIndexOutcome ==
    \A u \in Uploads :
        /\ up[u].built = "returned" => datasets[up[u].dsId].status = "ready"
        /\ up[u].built = "threw" => datasets[up[u].dsId].status = "error"
        /\ up[u].pc \in {"embed", "store", "ready"} =>
              /\ up[u].built = "none"
              /\ datasets[up[u].dsId].status = "processing"

C4_Witness ==
    \E u, v \in Uploads : up[u].built = "returned" /\ up[v].built = "threw"

(***************************************************************************)
(* C5: dataset status is monotonic.  In every step: no dataset disappears  *)
(* or changes its name or type, a status that is "ready" or "error" stays  *)
(* what it is, and every new dataset (a re-upload included) gets a new id  *)
(* and the status "processing".                                            *)
(***************************************************************************)
StatusStep ==
    /\ Len(datasets') >= Len(datasets)
    /\ \A d \in DOMAIN datasets :
          /\ datasets'[d].name = datasets[d].name
          /\ datasets'[d].fileType = datasets[d].fileType
          /\ datasets[d].status \in {"ready", "error"}
                => datasets'[d].status = datasets[d].status
    /\ \A d \in (DOMAIN datasets') \ (DOMAIN datasets) :
          datasets'[d].status = "processing"

C5_StatusMonotonic == [][StatusStep]_vars

C5_Witness ==
    /\ \E d, e \in DOMAIN datasets :
          /\ d < e
          /\ datasets[d].name = datasets[e].name
          /\ datasets[d].status = "ready"
          /\ datasets[e].status = "error"
    /\ \E c \in Chats : chat[c].processQuery = "returned"

(***************************************************************************)
(* C6: searchChunksByEmbedding(q, k) returns at most k chunks, in          *)
(* non-increasing order of cosine similarity to q; every stored chunk with *)
(* an embedding that it leaves out has a similarity no greater than that   *)
(* of every chunk returned; no returned chunk has a null or empty          *)
(* embedding.  Comparisons are those of the scores the code computes.      *)
(***************************************************************************)
SearchScore(id) == cosineSimilarity(searchQ[1], chunks[id].embedding[1])

Returned == {searchRes[i] : i \in DOMAIN searchRes}

LeftOut == {id \in DOMAIN chunks : HasEmbedding(chunks[id]) /\ id \notin Returned}

C6_SearchContract ==
    searchQ # NULL =>
        /\ Len(searchRes) <= searchK
        /\ \A r \in Returned : HasEmbedding(chunks[r])
        /\ \A i, j \in DOMAIN searchRes :
              i < j => ScoreGeq(SearchScore(searchRes[i]), SearchScore(searchRes[j]))
        /\ \A r \in Returned, o \in LeftOut :
              ScoreGeq(SearchScore(r), SearchScore(o))

(***************************************************************************)
(* C7: every score cosineSimilarity computes in a search is a number, and  *)
(* it is 0 when the query vector or the chunk's vector has zero magnitude. *)
(***************************************************************************)
C7_ZeroMagnitudeIsZero ==
    searchQ # NULL =>
        \A i \in DOMAIN searchScores :
            /\ ~searchScores[i].nan
            /\ (\/ magnitude2(searchQ[1]) = 0
                \/ magnitude2(chunks[Candidates(chunks)[i]].embedding[1]) = 0)
               => ScoreIsZero(searchScores[i])

(***************************************************************************)
(* C8: two returned chunks with equal similarity to the query vector come  *)
(* in the order in which they were inserted.                               *)
(***************************************************************************)
C8_TiesInInsertionOrder ==
    searchQ # NULL =>
        \A i, j \in DOMAIN searchRes :
            (i < j /\ ScoreEq(SearchScore(searchRes[i]), SearchScore(searchRes[j])))
            => searchRes[i] < searchRes[j]

(***************************************************************************)
(* C9: inserting is idempotent per chunk: the store never holds the same   *)
(* chunk (same dataset, same content) twice, so a search never returns it  *)
(* twice.                                                                  *)
(***************************************************************************)
SameChunk(a, b) == a.datasetId = b.datasetId /\ a.content = b.content

C9_InsertIdempotent ==
    /\ \A i, j \in DOMAIN chunks : SameChunk(chunks[i], chunks[j]) => i = j
    /\ \A i, j \in DOMAIN searchRes :
          SameChunk(chunks[searchRes[i]], chunks[searchRes[j]]) => i = j

(***************************************************************************)
(* C10: for a text shorter than the chunk size, chunkText returns exactly  *)
(* one chunk, whose content is the trimmed text.                           *)
(***************************************************************************)
C10_ShortTextIsOneChunk ==
    (textPc = "done" /\ Len(text) < ChunkSize) =>
        /\ Len(textChunks) = 1
        /\ textChunks[1].content = trim(text)

(***************************************************************************)
(* C11: when chunkText returns more than one chunk, the content of every   *)
(* chunk after the first begins with the last Overlap characters of the    *)
(* content of the chunk before it (with that whole content when it is      *)
(* shorter than Overlap).                                                  *)
(***************************************************************************)
LastChars(str, n) ==
    IF n >= Len(str) THEN str ELSE SubSeq(str, Len(str) - n + 1, Len(str))

StartsWith(str, prefix) ==
    /\ Len(prefix) <= Len(str)
    /\ SubSeq(str, 1, Len(prefix)) = prefix

C11_ChunkBeginsWithOverlap ==
    (textPc = "done" /\ Len(textChunks) > 1) =>
        \A i \in 2..Len(textChunks) :
            StartsWith(textChunks[i].content,
                       LastChars(textChunks[i - 1].content, Overlap))

(***************************************************************************)
(* C12: for a CSV input with N >= 0 data rows, processCSV returns exactly  *)
(* N + 1 chunks: N chunks of type csv_row with rowIndex 0..N-1 in row      *)
(* order, then exactly one chunk of type csv_summary whose totalRows is N. *)
(***************************************************************************)
C12_CsvChunks ==
    (call.fn = "processCSV" /\ ret # NULL) =>
        LET N == Len(call.rows)
            out == ret[1]
        IN  /\ Len(out) = N + 1
            /\ \A i \in 1..N :
                  /\ out[i].type = "csv_row"
                  /\ out[i].rowIndex = i - 1
                  /\ out[i].originalData = call.rows[i]
            /\ out[N + 1].type = "csv_summary"
            /\ out[N + 1].totalRows = N

(***************************************************************************)
(* C13: detectComputationalQuery returns true exactly when the lower-cased *)
(* query contains one of the aggregation keywords as a substring; the      *)
(* sample question about the total rice production in Punjab is            *)
(* computational and the one about wheat cultivation is conversational.    *)
(***************************************************************************)
AggregationVocabulary ==
    {<<"s", "u", "m">>,
     <<"t", "o", "t", "a", "l">>,
     <<"a", "v", "e", "r", "a", "g", "e">>,
     <<"m", "e", "a", "n">>,
     <<"c", "a", "l", "c", "u", "l", "a", "t", "e">>,
     <<"c", "o", "m", "p", "u", "t", "a", "t", "i", "o", "n">>,
     <<"b", "e", "t", "w", "e", "e", "n">>,
     <<"f", "r", "o", "m">>,
     <<"t", "i", "l", "l">>,
     <<"c", "o", "m", "b", "i", "n", "e", "d">>,
     <<"a", "g", "g", "r", "e", "g", "a", "t", "e">>,
     <<"s", "t", "a", "t", "i", "s", "t", "i", "c", "s">>}

OccursIn(sub, str) ==
    \E before, after \in 0..Len(str) :
        /\ before + Len(sub) + after = Len(str)
        /\ \A i \in 1..Len(sub) : str[before + i] = sub[i]

C13_Classifier ==
    (call.fn = "detectComputationalQuery" /\ ret # NULL) =>
        /\ ret[1] = (\E keyword \in AggregationVocabulary :
                        OccursIn(keyword, toLowerCase(call.query)))
        /\ call.query = sampleQuestions[1] => ret[1] = TRUE
        /\ call.query = sampleQuestions[2] => ret[1] = FALSE

C13_Witness ==
    /\ call.fn = "detectComputationalQuery"
    /\ call.query = <<"T", "O", "T", "A", "L", " ", "m", "a", "i", "z", "e", " ", "i", "n", " ", "A", "s", "s", "a", "m", " ", "2", "0", "2", "1">>
    /\ ret = Arr(TRUE)

(***************************************************************************)
(* C14: for the question about the rice production in Punjab from 2020 to  *)
(* 2022 and the single row {crop: rice, state: punjab, 2020: 100,          *)
(* 2021: 120}, performAgriculturalComputation aggregates every year column *)
(* inside the range: total 220.00, average 110.00, 2 data points, year     *)
(* range 2020-2022.                                                        *)
(***************************************************************************)
PunjabRiceRow ==
    <<<<<<"2", "0", "2", "0">>, <<"1", "0", "0">>>>, <<<<"2", "0", "2", "1">>, <<"1", "2", "0">>>>, <<<<"c", "r", "o", "p">>, <<"r", "i", "c", "e">>>>, <<<<"s", "t", "a", "t", "e">>, <<"p", "u", "n", "j", "a", "b">>>>>>

C14_YearRangeAggregation ==
    (/\ call.fn = "performAgriculturalComputation"
     /\ call.query = sampleQuestions[1]
     /\ call.csvData = <<PunjabRiceRow>>
     /\ ret # NULL) =>
        /\ OccursIn(<<"(", "2", "0", "2", "0", "-", "2", "0", "2", "2", ")">>, ret[1])
        /\ OccursIn(<<"T", "o", "t", "a", "l", ":", " ", "2", "2", "0", ".", "0", "0">>, ret[1])
        /\ OccursIn(<<"A", "v", "e", "r", "a", "g", "e", ":", " ", "1", "1", "0", ".", "0", "0">>, ret[1])
        /\ OccursIn(<<"D", "a", "t", "a", " ", "p", "o", "i", "n", "t", "s", ":", " ", "2">>, ret[1])

(***************************************************************************)
(* C15: performAgriculturalComputation always returns a string; when the   *)
(* lower-cased query names no crop of the vocabulary it returns the        *)
(* clarification message, whatever the rows, the state and the years are.  *)
(***************************************************************************)
CropVocabulary ==
    {<<"r", "i", "c", "e">>,
     <<"w", "h", "e", "a", "t">>,
     <<"m", "a", "i", "z", "e">>,
     <<"j", "o", "w", "a", "r">>,
     <<"b", "a", "j", "r", "a">>,
     <<"r", "a", "g", "i">>,
     <<"c", "o", "t", "t", "o", "n">>,
     <<"s", "u", "g", "a", "r", "c", "a", "n", "e">>}

NamesNoCrop(query) ==
    \A crop \in CropVocabulary : ~OccursIn(crop, toLowerCase(query))

C15_ClarificationWithoutCrop ==
    (call.fn = "performAgriculturalComputation" /\ ret # NULL) =>
        /\ \A i \in DOMAIN ret[1] : ret[1][i] \in STRING
        /\ Len(ret[1]) > 0
        /\ NamesNoCrop(call.query) =>
              ret[1] = <<"P", "l", "e", "a", "s", "e", " ", "s", "p", "e", "c", "i", "f", "y", " ", "a", " ", "c", "r", "o", "p", " ", "f", "o", "r", " ", "c", "o", "m", "p", "u", "t", "a", "t", "i", "o", "n", " ", "(", "e", ".", "g", ".", ",", " ", "r", "i", "c", "e", ",", " ", "w", "h", "e", "a", "t", ",", " ", "m", "a", "i", "z", "e", ")", ".">>

C15_Witness ==
    /\ call.fn = "performAgriculturalComputation"
    /\ call.query = <<"a", "v", "e", "r", "a", "g", "e", " ", "2", "0", "2", "0">>
    /\ call.csvData = <<PunjabRiceRow>>
    /\ ret # NULL

(***************************************************************************)
(* C16: on the computational branch, when no ready CSV dataset exists or   *)
(* none of the ready CSV datasets yields a row, the answer returned is an  *)
(* explanatory one with an empty sources list, and the computation is not  *)
(* performed.                                                              *)
(***************************************************************************)
C16_NoRowsEmptySources ==
    \A c \in Chats :
        (/\ chat[c].pc = "done"
         /\ chat[c].processQuery = "returned"
         /\ detectComputationalQuery(chat[c].query)
         /\ chat[c].rows = 0) =>
            /\ chat[c].answer \in {"noCsvDatasets", "unableToLoad"}
            /\ chat[c].sources = <<>>

(***************************************************************************)
(* C17: when handleComputationalQuery goes on to load rows, the datasets   *)
(* it loads include every dataset that was uploaded as a CSV file and has  *)
(* status ready, whatever the letter case of the file's extension.         *)
(***************************************************************************)
IsCsvUpload(d) == ToLowerCaseExt(d.fileType) = "csv"

FilterStep ==
    \A c \in Chats :
        (chat[c].pc = "filter" /\ chat'[c].pc = "load") =>
            \A i \in 1..chat[c].snapshot :
                (IsCsvUpload(datasets[i]) /\ datasets[i].status = "ready") =>
                    \E k \in DOMAIN chat'[c].csvDatasets :
                        chat'[c].csvDatasets[k] = i

C17_EveryReadyCsvLoaded == [][FilterStep]_vars

(***************************************************************************)
(* C18: on the conversational branch, a search that returns no chunk gives *)
(* the fixed insufficient-knowledge answer with sources [] and             *)
(* isComputation false, without a call of the language model; the language *)
(* model is called only after a search that returned at least one chunk.   *)
(***************************************************************************)
C18_NoGenerationWithoutContext ==
    \A c \in Chats :
        /\ chat[c].llmCalls > 0 => chat[c].retrieved # <<>>
        /\ chat[c].pc = "generate" => chat[c].retrieved # <<>>
        /\ (/\ chat[c].pc = "done"
            /\ chat[c].processQuery = "returned"
            /\ ~detectComputationalQuery(chat[c].query)
            /\ chat[c].retrieved = <<>>) =>
               /\ chat[c].answer = "insufficient"
               /\ chat[c].sources = <<>>
               /\ chat[c].isComputation = Arr(FALSE)
               /\ chat[c].llmCalls = 0

C18_Witness ==
    \E c \in Chats :
        /\ chat[c].pc = "done"
        /\ chat[c].answer = "insufficient"
        /\ chat[c].retrieved = <<>>
        /\ chunks # <<>>

(***************************************************************************)
(* C19: the sources of a conversational answer hold no duplicate, hold     *)
(* exactly the labels of the retrieved chunks, and list them in the order  *)
(* of the first retrieved chunk carrying each label.                       *)
(***************************************************************************)
LabelOf(id) == datasets[chunks[id].datasetId].name

FirstRank(r, label) ==
    CHOOSE i \in DOMAIN r.retrieved :
        /\ LabelOf(r.retrieved[i]) = label
        /\ \A j \in 1..(i - 1) : LabelOf(r.retrieved[j]) # label

C19_SourcesDeduplicated ==
    \A c \in Chats :
        (chat[c].pc = "done" /\ chat[c].answer = "generated") =>
            LET r == chat[c]
            IN  /\ \A i, j \in DOMAIN r.sources :
                      r.sources[i] = r.sources[j] => i = j
                /\ {r.sources[i] : i \in DOMAIN r.sources}
                      = {LabelOf(r.retrieved[i]) : i \in DOMAIN r.retrieved}
                /\ \A i, j \in DOMAIN r.sources :
                      i < j => FirstRank(r, r.sources[i]) < FirstRank(r, r.sources[j])

C19_Witness ==
    \E c \in Chats :
        /\ chat[c].pc = "done"
        /\ chat[c].answer = "generated"
        /\ Len(chat[c].sources) = 2
        /\ Len(chat[c].retrieved) > 2

(***************************************************************************)
(* C20: in an upload request with several files, the failure of one file   *)
(* (in processFile or in buildIndexForDataset) leaves the chunks and the   *)
(* status of every other dataset unchanged and does not end the request:   *)
(* the loop goes on with the next file, and the finished request holds one *)
(* result per uploaded file.                                               *)
(***************************************************************************)
FileFails(u) ==
    /\ Len(up'[u].results) = Len(up[u].results) + 1
    /\ up'[u].results[Len(up'[u].results)] = "error"

UploadFailureStep ==
    \A u \in Uploads :
        /\ FileFails(u) =>
              /\ chunks' = chunks
              /\ Len(datasets') = Len(datasets)
              /\ \A d \in DOMAIN datasets :
                    d # up[u].dsId => datasets'[d] = datasets[d]
              /\ up'[u].pc = IF up[u].idx < up[u].nFiles THEN "create" ELSE "done"
        /\ up'[u].pc = "done" =>
              /\ up'[u].idx = up'[u].nFiles
              /\ Len(up'[u].results) = up'[u].nFiles

C20_FailureIsolated == [][UploadFailureStep]_vars

C20_Witness ==
    \E u \in Uploads :
        /\ up[u].pc = "done"
        /\ up[u].nFiles = 2
        /\ up[u].results = <<"error", "ready">>
        /\ chunks # <<>>

(***************************************************************************)
(* C21: getMessagesByConversation(c) returns exactly the messages whose    *)
(* conversationId is c, in the order of their creation, also when several  *)
(* of them carry the same creation timestamp.                              *)
(***************************************************************************)
C21_MessagesInCreationOrder ==
    (call.fn = "getMessagesByConversation" /\ ret # NULL) =>
        LET out == ret[1]
        IN  /\ {out[i] : i \in DOMAIN out}
                  = {id \in DOMAIN messages :
                        messages[id].conversationId = call.conversationId}
            /\ \A i, j \in DOMAIN out : i < j => out[i] < out[j]

C21_Witness ==
    /\ call.fn = "getMessagesByConversation"
    /\ ret # NULL
    /\ Len(ret[1]) >= 3
    /\ Len(messages) > Len(ret[1])
    /\ \E i, j \in DOMAIN ret[1] :
          /\ i < j
          /\ messages[ret[1][i]].createdAt = messages[ret[1][j]].createdAt
    /\ \E i, j \in DOMAIN ret[1] :
          messages[ret[1][i]].createdAt < messages[ret[1][j]].createdAt

(***************************************************************************)
(* C22: no query and no indexing operation blocks for ever: a processQuery *)
(* call that started eventually completes, and so does a                   *)
(* buildIndexForDataset call, even if the embedding provider or the        *)
(* language model never answers.                                           *)
(***************************************************************************)
C22_EventuallyCompletes ==
    /\ \A c \in Chats : (chat[c].pc = "processQuery") ~> (chat[c].pc = "done")
    /\ \A u \in Uploads : (up[u].pc = "embed") ~> (up[u].built # "none")

(***************************************************************************)
(* C23: when the query names a known crop and a row matches, the values    *)
(* aggregated are exactly, for every row whose joined lower-cased values   *)
(* contain the crop (and the state, if the query names one), every cell    *)
(* that parses as a number, in the columns whose name contains one of the  *)
(* query's 4-digit years when it has any; the total is their sum, the data *)
(* points their number and the average total / count.                      *)
(***************************************************************************)
RowMatches(row, crop, state) ==
    LET flat == toLowerCase(join(valuesOf(row), <<" ">>))
    IN  /\ OccursIn(crop, flat)
        /\ state # NULL => OccursIn(state[1], flat)

\* The cells <<row index, column index>> the claim says are aggregated.
AggregatedCells(query, csvData) ==
    LET crop == find(crops, toLowerCase(query))
        state == find(states, toLowerCase(query))
        years == yearsOf(query)
    IN  {cell \in (DOMAIN csvData) \X (1..4) :
            /\ cell[2] \in DOMAIN csvData[cell[1]]
            /\ RowMatches(csvData[cell[1]], crop[1], state)
            /\ parseFloat(csvData[cell[1]][cell[2]][2]) # NULL
            /\ years # <<>> =>
                  \E y \in DOMAIN years :
                      OccursIn(toString(years[y]), csvData[cell[1]][cell[2]][1])}

RECURSIVE CellSum(_, _)
CellSum(csvData, cells) ==
    IF cells = {} THEN 0
    ELSE LET cell == CHOOSE x \in cells : TRUE
         IN  parseFloat(csvData[cell[1]][cell[2]][2])[1]
             + CellSum(csvData, cells \ {cell})

EndsWith(str, suffix) ==
    /\ Len(suffix) <= Len(str)
    /\ SubSeq(str, Len(str) - Len(suffix) + 1, Len(str)) = suffix

C23_AggregatedValues ==
    (/\ call.fn = "performAgriculturalComputation"
     /\ ret # NULL
     /\ find(crops, toLowerCase(call.query)) # NULL
     /\ \E i \in DOMAIN call.csvData :
           RowMatches(call.csvData[i], find(crops, toLowerCase(call.query))[1],
                      find(states, toLowerCase(call.query)))) =>
        LET cells == AggregatedCells(call.query, call.csvData)
            count == Cardinality(cells)
            total == CellSum(call.csvData, cells)
        IN  IF count = 0
            THEN ret[1] = <<"N", "o", " ", "n", "u", "m", "e", "r", "i", "c", " ", "d", "a", "t", "a", " ", "f", "o", "u", "n", "d", " ", "f", "o", "r", " ", "c", "o", "m", "p", "u", "t", "a", "t", "i", "o", "n", ".">>
            ELSE /\ OccursIn(<<"T", "o", "t", "a", "l", ":", " ">> \o toString(total) \o <<".", "0", "0", "\n">>,
                             ret[1])
                 /\ EndsWith(ret[1], <<"\n">> \o <<"D", "a", "t", "a", " ", "p", "o", "i", "n", "t", "s", ":", " ">> \o toString(count))
                 /\ \E average \in 0..(100 * total) :
                       /\ 2 * average * count <= 200 * total + count
                       /\ 2 * average * count > 200 * total - count
                       /\ OccursIn(<<"\n">> \o <<"A", "v", "e", "r", "a", "g", "e", ":", " ">> \o toFixed2(average) \o <<"\n">>,
                                   ret[1])

C23_Witness ==
    /\ call.fn = "performAgriculturalComputation"
    /\ call.query = <<"R", "i", "c", "e", " ", "i", "n", " ", "P", "u", "n", "j", "a", "b", " ", "2", "0", "2", "1">>
    /\ Len(call.csvData) = 2
    /\ Cardinality(AggregatedCells(call.query, call.csvData)) = 2
    /\ ret # NULL

(***************************************************************************)
(* C24: the answer postProcessResponse returns has no leading or trailing  *)
(* whitespace and begins with none of the labels "Answer:", "Response:",   *)
(* "A:", also when the raw response stacks several labels; applying        *)
(* postProcessResponse to its own result changes nothing.                  *)
(***************************************************************************)
C24_PostProcessIdempotent ==
    (call.fn = "postProcessResponse" /\ ret # NULL) =>
        /\ trim(ret[1]) = ret[1]
        /\ \A i \in DOMAIN unwantedPrefixes :
              ~StartsWith(ret[1], unwantedPrefixes[i])
        /\ postProcessResponse(ret[1]) = ret[1]

(***************************************************************************)
(* C25: buildIndexForDataset makes exactly one call of the embedding       *)
(* provider's batched form for all the chunks of the dataset; the call has *)
(* completed before the first chunk of the dataset is stored, and when it  *)
(* fails no chunk of the dataset is stored.                                *)
(***************************************************************************)
ChunksOf(d) == {id \in DOMAIN chunks : chunks[id].datasetId = d}

C25_OneBatchedEmbeddingCall ==
    \A u \in Uploads :
        /\ up[u].pc \in {"embed", "store", "ready"} => up[u].embedCalls = 1
        /\ up[u].built # "none" => up[u].embedCalls = 1
        /\ up[u].pc = "embed" => ChunksOf(up[u].dsId) = {}
        /\ (up[u].dsId # 0 /\ ChunksOf(up[u].dsId) # {}) =>
              /\ up[u].embedCalls = 1
              /\ up[u].built # "threw"
              /\ Cardinality(ChunksOf(up[u].dsId)) = up[u].nChunks
        /\ up[u].built = "threw" => ChunksOf(up[u].dsId) = {}

C25_Witness ==
    \E u \in Uploads :
        /\ up[u].built = "returned"
        /\ up[u].embedCalls = 1
        /\ Cardinality(ChunksOf(up[u].dsId)) = 2

(***************************************************************************)
(* C26: the chunks of chunkText are bounded by the chunk size: the first   *)
(* chunk (no overlap seed), when it holds more than one sentence, has      *)
(* content length at most ChunkSize; a later chunk (which starts with an   *)
(* overlap seed) has content length at most ChunkSize + Overlap, unless it *)
(* holds a single sentence that is itself longer than ChunkSize.           *)
(***************************************************************************)
\* In the first chunk every sentence is followed by one ".".
SentencesInFirst(content) == Len(SelectSeq(content, LAMBDA ch : ch = "."))

\* The content is an overlap seed followed by one sentence longer than
\* ChunkSize.
SeedAndLongSentence(content) ==
    \E k \in DOMAIN sentencesOf(text) :
        LET sentence == sentencesOf(text)[k]
        IN  /\ Len(sentence) > ChunkSize
            /\ \/ EndsWith(content, trimEnd(sentence))
               \/ EndsWith(content, sentence \o <<".">>)
            /\ Len(content) <= Overlap + Len(sentence) + 1

C26_ChunksBounded ==
    (textPc = "done") =>
        \A i \in DOMAIN textChunks :
            LET content == textChunks[i].content
            IN  IF i = 1
                THEN SentencesInFirst(content) > 1 => Len(content) <= ChunkSize
                ELSE \/ Len(content) <= ChunkSize + Overlap
                     \/ SeedAndLongSentence(content)

(***************************************************************************)
(* C27: chunkText loses no content: every non-blank sentence segment of    *)
(* the input appears in full (up to the blanks around it) in the content   *)
(* of a returned chunk, the segments appear in input order across the      *)
(* chunk sequence, the last segment is in the last chunk, and a sentence   *)
(* longer than ChunkSize is emitted whole.                                 *)
(***************************************************************************)
\* The least chunk from chunk `from` on whose content holds the segment, or 0.
FirstChunkWith(segment, from) ==
    IF \E j \in from..Len(textChunks) : OccursIn(trim(segment), textChunks[j].content)
    THEN CHOOSE j \in from..Len(textChunks) :
            /\ OccursIn(trim(segment), textChunks[j].content)
            /\ \A k \in from..(j - 1) :
                  ~OccursIn(trim(segment), textChunks[k].content)
    ELSE 0

\* Segments k.. are found in chunks from.. in order.
RECURSIVE InOrder(_, _, _)
InOrder(segments, k, from) ==
    IF k > Len(segments) THEN TRUE
    ELSE LET j == FirstChunkWith(segments[k], from)
         IN  j # 0 /\ InOrder(segments, k + 1, j)

C27_NoContentLost ==
    (textPc = "done") =>
        LET segments == sentencesOf(text)
        IN  /\ InOrder(segments, 1, 1)
            /\ segments # <<>> =>
                  /\ textChunks # <<>>
                  /\ OccursIn(trim(segments[Len(segments)]),
                              textChunks[Len(textChunks)].content)

C27_Witness ==
    /\ textPc = "done"
    /\ Len(textChunks) = 2
    /\ Len(sentencesOf(text)) = 2
    /\ Len(sentencesOf(text)[2]) = ChunkSize

MessagesOf(id) == SelectSeq(messages, LAMBDA m : m.conversationId = id)

C29_MessagesAlternate ==
    (\A c \in Chats : chat[c].pc \in {"idle", "done"}) =>
        \A id \in 1..conversations :
            LET stored == MessagesOf(id)
            IN  /\ Len(stored) % 2 = 0
                /\ \A i \in DOMAIN stored :
                      stored[i].role = IF i % 2 = 1 THEN "user" ELSE "assistant"

(***************************************************************************)
(* C30: the sources of a computed answer name exactly the datasets whose   *)
(* rows were loaded and passed to performAgriculturalComputation: a ready  *)
(* CSV dataset whose file failed to load is not listed.                    *)
(***************************************************************************)
LoadedDatasets(r) == SelectSeq(r.csvDatasets, LAMBDA id : id \notin r.failed)

C30_SourcesAreLoadedDatasets ==
    \A c \in Chats :
        (chat[c].pc = "done" /\ chat[c].answer = "computationResult") =>
            chat[c].sources = DatasetNames(LoadedDatasets(chat[c]))

====
